---- MODULE Spec2Model ----
(***************************************************************************)
(* Model of packages/base/src/i18nBundle.ts (the I18nBundle registry, the  *)
(* asynchronous getI18nBundle and I18nBundle.getText) and of the keyboard  *)
(* handling of packages/main/src/TreeItemBase.ts.                          *)
(*                                                                         *)
(* Strings that getText works on are sequences of tokens: a token is a     *)
(* literal piece of text or one of the placeholders "{0}", "{1}".  The     *)
(* empty string is the empty sequence.                                     *)
(***************************************************************************)
EXTENDS Integers, Sequences, FiniteSets, TLC

(* ----------------------------- bounds --------------------------------- *)
NumCalls == 2
NumGetters == 2
MaxBundles == 4
MaxWarnings == 2
MaxLevel == 2
MaxItems == 1

(* --------------------------- input domains ---------------------------- *)
Packages == {"pkg-a", "@ui5/webcomponents"}
Calls == 1..NumCalls
Getters == 1..NumGetters
LoadErrors == {"E_NETWORK", "E_PARSE"}

VARIABLES
    \* i18nBundle.ts
    I18nBundleInstances,    \* Map<string, I18nBundle>: package -> identity of the instance
    customGetI18nBundle,    \* the custom getter slot, 0 = undefined
    bundles,                \* every I18nBundle constructed so far: identity -> packageName
    calls,                  \* the getI18nBundle invocations and where each one stands
    returned,               \* history: package -> identities getI18nBundleSync returned for it
    lastRegistered,         \* history: the getter most recently passed to
                            \* registerCustomI18nBundleGetter, 0 = none yet
    \* asset-registries/i18n.js and the console
    bundleData,             \* package -> loaded locale data (a function key -> text) or NoData
    warnings,               \* console.warn output, oldest first
    lastText,               \* the most recent getText call: input, result and what it touched
    \* TreeItemBase.ts
    item,                   \* the properties of one tree item
    lastEvent,              \* the most recent handler run on the item and what it did
    i18nBundle,             \* the static TreeItemBase.i18nBundle
    defineState,            \* where the definition of the element class stands
    lastRead                \* the most recent read of bundle text by a rendering instance

i18nVars == <<I18nBundleInstances, customGetI18nBundle, bundles, calls, returned,
              lastRegistered>>
textVars == <<bundleData, warnings, lastText>>
treeVars == <<item, lastEvent>>
classVars == <<i18nBundle, defineState, lastRead>>
vars == <<I18nBundleInstances, customGetI18nBundle, bundles, calls, returned,
          lastRegistered, bundleData, warnings, lastText, item, lastEvent,
          i18nBundle, defineState, lastRead>>

(* ====================== i18nBundle.ts: registry ======================= *)

IdleCall ==
    [pc |-> "idle", packageName |-> "", getter |-> 0, fetches |-> 0,
     fetchError |-> "", result |-> 0, error |-> "", startGetter |-> 0,
     startRegistered |-> 0, resumeGetter |-> 0, registry |-> FALSE]

\* new I18nBundle(packageName): the identity of the object that would be created
NewI18nBundle == Len(bundles) + 1

\* getI18nBundleSync with the cache check removed: constructs on every call
GetI18nBundleSyncNoCache(packageName) ==
    [ret |-> NewI18nBundle,
     instances |-> (packageName :> NewI18nBundle) @@ I18nBundleInstances,
     bundles |-> Append(bundles, packageName)]

\* getI18nBundleSync: the value returned and the registry after the call
GetI18nBundleSync(packageName) ==
    IF packageName \in DOMAIN I18nBundleInstances
    THEN [ret |-> I18nBundleInstances[packageName],
          instances |-> I18nBundleInstances,
          bundles |-> bundles]
    ELSE [ret |-> NewI18nBundle,
          instances |-> (packageName :> NewI18nBundle) @@ I18nBundleInstances,
          bundles |-> Append(bundles, packageName)]

\* a direct call of getI18nBundleSync(packageName)
CallGetI18nBundleSync(packageName) ==
    LET r == GetI18nBundleSync(packageName) IN
    /\ Len(bundles) < MaxBundles
    /\ I18nBundleInstances' = r.instances
    /\ bundles' = r.bundles
    /\ returned' = [returned EXCEPT ![packageName] = @ \cup {r.ret}]
    /\ UNCHANGED <<customGetI18nBundle, calls, lastRegistered>>
    /\ UNCHANGED textVars
    /\ UNCHANGED treeVars
    /\ UNCHANGED classVars

(* ===================== i18nBundle.ts: getI18nBundle =================== *)

\* what the registered loader yields for a package in the active locale
LoaderData(packageName) ==
    IF packageName = "pkg-a"
    THEN (<<"GREETING">> :> <<"Hallo ", "{0}">>)
    ELSE (<<"TREE_ITEM_ARIA_LABEL">> :> <<"Baumelement">>)
         @@ (<<"TREE_ITEM_EXPAND_NODE">> :> <<"Knoten aufklappen">>)
         @@ (<<"TREE_ITEM_COLLAPSE_NODE">> :> <<"Knoten zuklappen">>)

\* getI18nBundle that never looks at the custom getter slot
GetI18nBundleIgnoreCustom(c, packageName) ==
    /\ calls[c].pc = "idle"
    /\ calls' = [calls EXCEPT ![c] =
                    [@ EXCEPT !.pc = "awaiting", !.packageName = packageName,
                              !.startGetter = customGetI18nBundle,
                              !.startRegistered = lastRegistered,
                              !.fetches = @ + 1]]
    /\ UNCHANGED <<I18nBundleInstances, customGetI18nBundle, bundles, returned,
                   lastRegistered>>
    /\ UNCHANGED textVars
    /\ UNCHANGED treeVars
    /\ UNCHANGED classVars

\* getI18nBundle(packageName), from the call to its first suspension: either
\* the custom getter's promise is returned or fetchI18nBundle is awaited
GetI18nBundle(c, packageName) ==
    /\ calls[c].pc = "idle"
    /\ calls' = [calls EXCEPT ![c] =
                    IF customGetI18nBundle # 0
                    THEN [@ EXCEPT !.pc = "delegated", !.packageName = packageName,
                                   !.startGetter = customGetI18nBundle,
                                   !.startRegistered = lastRegistered,
                                   !.getter = customGetI18nBundle]
                    ELSE [@ EXCEPT !.pc = "awaiting", !.packageName = packageName,
                                   !.startGetter = customGetI18nBundle,
                                   !.startRegistered = lastRegistered,
                                   !.fetches = @ + 1]]
    /\ UNCHANGED <<I18nBundleInstances, customGetI18nBundle, bundles, returned,
                   lastRegistered>>
    /\ UNCHANGED textVars
    /\ UNCHANGED treeVars
    /\ UNCHANGED classVars

\* fetchI18nBundle(packageName) succeeds: the locale data is registered
FetchI18nBundleLoaded(c) ==
    /\ calls[c].pc = "awaiting"
    /\ calls' = [calls EXCEPT ![c].pc = "fetched"]
    /\ bundleData' = (calls[c].packageName :> LoaderData(calls[c].packageName))
                        @@ bundleData
    /\ UNCHANGED <<I18nBundleInstances, customGetI18nBundle, bundles, returned,
                   lastRegistered>>
    /\ UNCHANGED <<warnings, lastText>>
    /\ UNCHANGED treeVars
    /\ UNCHANGED classVars

\* fetchI18nBundle(packageName) fails with the load error e
FetchI18nBundleFailed(c, e) ==
    /\ calls[c].pc = "awaiting"
    /\ calls' = [calls EXCEPT ![c].pc = "failed", ![c].fetchError = e]
    /\ UNCHANGED <<I18nBundleInstances, customGetI18nBundle, bundles, returned,
                   lastRegistered>>
    /\ UNCHANGED textVars
    /\ UNCHANGED treeVars
    /\ UNCHANGED classVars

\* the continuation of getI18nBundle with a catch around the await
GetI18nBundleResumeSwallow(c) ==
    LET r == GetI18nBundleSync(calls[c].packageName) IN
    /\ calls[c].pc \in {"fetched", "failed"}
    /\ Len(bundles) < MaxBundles
    /\ calls' = [calls EXCEPT ![c].pc = "resolved",
                              ![c].resumeGetter = customGetI18nBundle,
                              ![c].result = r.ret,
                              ![c].registry = TRUE]
    /\ I18nBundleInstances' = r.instances
    /\ bundles' = r.bundles
    /\ returned' = [returned EXCEPT ![calls[c].packageName] = @ \cup {r.ret}]
    /\ UNCHANGED <<customGetI18nBundle, lastRegistered>>
    /\ UNCHANGED textVars
    /\ UNCHANGED treeVars
    /\ UNCHANGED classVars

\* the continuation of getI18nBundle that looks at the custom getter slot again
GetI18nBundleResumeRecheck(c) ==
    LET r == GetI18nBundleSync(calls[c].packageName) IN
    /\ calls[c].pc \in {"fetched", "failed"}
    /\ Len(bundles) < MaxBundles
    /\ IF calls[c].pc = "failed"
       THEN /\ calls' = [calls EXCEPT ![c].pc = "rejected",
                                      ![c].resumeGetter = customGetI18nBundle,
                                      ![c].error = calls[c].fetchError]
            /\ UNCHANGED <<I18nBundleInstances, bundles, returned>>
       ELSE IF customGetI18nBundle # 0
       THEN /\ calls' = [calls EXCEPT ![c].pc = "delegated",
                                      ![c].resumeGetter = customGetI18nBundle,
                                      ![c].getter = customGetI18nBundle]
            /\ UNCHANGED <<I18nBundleInstances, bundles, returned>>
       ELSE /\ calls' = [calls EXCEPT ![c].pc = "resolved",
                                      ![c].resumeGetter = customGetI18nBundle,
                                      ![c].result = r.ret,
                                      ![c].registry = TRUE]
            /\ I18nBundleInstances' = r.instances
            /\ bundles' = r.bundles
            /\ returned' = [returned EXCEPT ![calls[c].packageName] = @ \cup {r.ret}]
    /\ UNCHANGED <<customGetI18nBundle, lastRegistered>>
    /\ UNCHANGED textVars
    /\ UNCHANGED treeVars
    /\ UNCHANGED classVars

\* the continuation of getI18nBundle that constructs the bundle itself
GetI18nBundleResumeConstruct(c) ==
    /\ calls[c].pc \in {"fetched", "failed"}
    /\ Len(bundles) < MaxBundles
    /\ IF calls[c].pc = "failed"
       THEN /\ calls' = [calls EXCEPT ![c].pc = "rejected",
                                      ![c].resumeGetter = customGetI18nBundle,
                                      ![c].error = calls[c].fetchError]
            /\ UNCHANGED <<I18nBundleInstances, bundles, returned>>
       ELSE /\ calls' = [calls EXCEPT ![c].pc = "resolved",
                                      ![c].resumeGetter = customGetI18nBundle,
                                      ![c].result = NewI18nBundle,
                                      ![c].registry = TRUE]
            /\ I18nBundleInstances' =
                   (calls[c].packageName :> NewI18nBundle) @@ I18nBundleInstances
            /\ bundles' = Append(bundles, calls[c].packageName)
            /\ UNCHANGED returned
    /\ UNCHANGED <<customGetI18nBundle, lastRegistered>>
    /\ UNCHANGED textVars
    /\ UNCHANGED treeVars
    /\ UNCHANGED classVars

\* getI18nBundle resumed after `await fetchI18nBundle(packageName)`: a failed
\* fetch rejects the call, a loaded one returns getI18nBundleSync(packageName)
GetI18nBundleResume(c) ==
    LET r == GetI18nBundleSync(calls[c].packageName) IN
    /\ calls[c].pc \in {"fetched", "failed"}
    /\ Len(bundles) < MaxBundles
    /\ IF calls[c].pc = "failed"
       THEN /\ calls' = [calls EXCEPT ![c].pc = "rejected",
                                      ![c].resumeGetter = customGetI18nBundle,
                                      ![c].error = calls[c].fetchError]
            /\ UNCHANGED <<I18nBundleInstances, bundles, returned>>
       ELSE /\ calls' = [calls EXCEPT ![c].pc = "resolved",
                                      ![c].resumeGetter = customGetI18nBundle,
                                      ![c].result = r.ret,
                                      ![c].registry = TRUE]
            /\ I18nBundleInstances' = r.instances
            /\ bundles' = r.bundles
            /\ returned' = [returned EXCEPT ![calls[c].packageName] = @ \cup {r.ret}]
    /\ UNCHANGED <<customGetI18nBundle, lastRegistered>>
    /\ UNCHANGED textVars
    /\ UNCHANGED treeVars
    /\ UNCHANGED classVars

\* registerCustomI18nBundleGetter that keeps a getter that is already set
RegisterFirstGetterWins(customGet) ==
    /\ customGetI18nBundle' =
          IF customGetI18nBundle = 0 THEN customGet ELSE customGetI18nBundle
    /\ lastRegistered' = customGet
    /\ UNCHANGED <<I18nBundleInstances, bundles, calls, returned>>
    /\ UNCHANGED textVars
    /\ UNCHANGED treeVars
    /\ UNCHANGED classVars

\* registerCustomI18nBundleGetter(customGet)
RegisterCustomI18nBundleGetter(customGet) ==
    /\ customGetI18nBundle' = customGet
    /\ lastRegistered' = customGet
    /\ UNCHANGED <<I18nBundleInstances, bundles, calls, returned>>
    /\ UNCHANGED textVars
    /\ UNCHANGED treeVars
    /\ UNCHANGED classVars

(* ====================== i18nBundle.ts: getText ======================== *)

Keys == {<<>>, <<"GREETING">>, <<"MISSING">>}
DefaultTexts == {<<>>, <<"Hello ", "{0}">>}
ParamLists == {<<>>, <<"World">>}

\* the locale data a loader can register for a package: key -> translated text
LocaleData ==
    { <<>>,
      (<<"GREETING">> :> <<"Hallo ", "{0}">>),
      (<<"GREETING">> :> <<>>) }

\* the values getText can be called with: undefined, a bare string, a pair
Undefined == [type |-> "undefined", key |-> <<>>, defaultText |-> <<>>]
StringArg(s) == [type |-> "string", key |-> s, defaultText |-> <<>>]
TextObj(k, d) == [type |-> "object", key |-> k, defaultText |-> d]
TextObjs ==
    {Undefined} \cup {StringArg(s) : s \in Keys}
                \cup {TextObj(k, d) : k \in Keys, d \in DefaultTexts}

\* formatMessage(text, values): "{i}" becomes String(values[i])
FormatMessage(text, values) ==
    [i \in 1..Len(text) |->
        IF text[i] = "{0}"
        THEN (IF Len(values) > 0 THEN values[1] ELSE "undefined")
        ELSE IF text[i] = "{1}"
        THEN (IF Len(values) > 1 THEN values[2] ELSE "undefined")
        ELSE text[i]]

\* getI18nBundleData(packageName): the loaded data, if any
HasI18nBundleData(packageName) == packageName \in DOMAIN bundleData
GetI18nBundleData(packageName) ==
    IF HasI18nBundleData(packageName) THEN bundleData[packageName] ELSE <<>>

\* bundle[key]: the property read; an absent property reads as undefined
BundleEntry(bundle, key) ==
    IF key \in DOMAIN bundle
    THEN [defined |-> TRUE, value |-> bundle[key]]
    ELSE [defined |-> FALSE, value |-> <<>>]

\* JavaScript truthiness of a string or of a property read
TruthyText(text) == text # <<>>
TruthyEntry(entry) == entry.defined /\ TruthyText(entry.value)

\* `if (typeof textObj === "string") textObj = { key: textObj, defaultText: textObj }`
NormalizeTextObj(textObj) ==
    IF textObj.type = "string"
    THEN [type |-> "object", key |-> textObj.key, defaultText |-> textObj.key]
    ELSE textObj

\* getText whose early return only covers a missing textObj, not an empty key
GetTextNoKeyCheck(packageName, textObj0, params) ==
    LET textObj == NormalizeTextObj(textObj0)
        bundle == GetI18nBundleData(packageName)
        hasBundle == HasI18nBundleData(packageName)
        entry == BundleEntry(bundle, textObj.key)
        messageText ==
            IF hasBundle /\ TruthyEntry(entry)
            THEN entry.value
            ELSE IF TruthyText(textObj.defaultText)
                 THEN textObj.defaultText
                 ELSE textObj.key
    IN  IF textObj.type = "undefined"
        THEN [result |-> <<>>, warned |-> <<>>,
              consulted |-> FALSE, formatted |-> FALSE]
        ELSE [result |-> FormatMessage(messageText, params),
              warned |-> IF hasBundle /\ ~TruthyEntry(entry)
                         THEN <<textObj.key>> ELSE <<>>,
              consulted |-> TRUE, formatted |-> TRUE]

\* I18nBundle.getText: the text returned, the warnings written to the console,
\* and whether the locale data was read and the formatter was called
GetText(packageName, textObj0, params) ==
    LET textObj == NormalizeTextObj(textObj0)
        bundle == GetI18nBundleData(packageName)
        hasBundle == HasI18nBundleData(packageName)
        entry == BundleEntry(bundle, textObj.key)
        messageText ==
            IF hasBundle /\ TruthyEntry(entry)
            THEN entry.value
            ELSE IF TruthyText(textObj.defaultText)
                 THEN textObj.defaultText
                 ELSE textObj.key
    IN  IF textObj.type = "undefined" \/ ~TruthyText(textObj.key)
        THEN [result |-> <<>>, warned |-> <<>>,
              consulted |-> FALSE, formatted |-> FALSE]
        ELSE [result |-> FormatMessage(messageText, params),
              warned |-> IF hasBundle /\ ~TruthyEntry(entry)
                         THEN <<textObj.key>> ELSE <<>>,
              consulted |-> TRUE, formatted |-> TRUE]

NoText ==
    [called |-> FALSE, packageName |-> "", textObj |-> Undefined, params |-> <<>>,
     hadData |-> FALSE, entry |-> [defined |-> FALSE, value |-> <<>>],
     result |-> <<>>, warned |-> 0, consulted |-> FALSE, formatted |-> FALSE]

\* a call bundle.getText(textObj, ...params) on the constructed I18nBundle b
CallGetText(b, textObj, params) ==
    LET packageName == bundles[b]
        r == GetText(packageName, textObj, params)
    IN  /\ b \in DOMAIN bundles
        /\ Len(warnings) < MaxWarnings
        /\ warnings' = warnings \o r.warned
        /\ lastText' =
              [called |-> TRUE, packageName |-> packageName,
               textObj |-> textObj, params |-> params,
               hadData |-> HasI18nBundleData(packageName),
               entry |-> BundleEntry(GetI18nBundleData(packageName),
                                     NormalizeTextObj(textObj).key),
               result |-> r.result, warned |-> Len(r.warned),
               consulted |-> r.consulted, formatted |-> r.formatted]
        /\ UNCHANGED bundleData
        /\ UNCHANGED i18nVars
        /\ UNCHANGED treeVars
        /\ UNCHANGED classVars

\* _setI18nBundleData(packageName, data): the loader registers locale data
SetI18nBundleData(packageName, data) ==
    /\ bundleData' = (packageName :> data) @@ bundleData
    /\ UNCHANGED <<warnings, lastText>>
    /\ UNCHANGED i18nVars
    /\ UNCHANGED treeVars
    /\ UNCHANGED classVars

(* ========================== TreeItemBase.ts =========================== *)

Ids == {"ui5wc_1", "ui5wc_2"}
Levels == 1..MaxLevel
ItemCounts == 0..MaxItems
KeyEvents == {[key |-> "ArrowLeft"], [key |-> "ArrowRight"], [key |-> "Enter"]}

\* Keys.js
isLeft(e) == e.key = "ArrowLeft"
isRight(e) == e.key = "ArrowRight"

\* the property defaults of a newly constructed item; "" stands for both the
\* empty string and undefined, which the code never tells apart
NewItem(id) ==
    [_id |-> id, level |-> 1, showToggleButton |-> FALSE, expanded |-> FALSE,
     hasChildren |-> FALSE, _toggleButtonEnd |-> FALSE, _minimal |-> FALSE,
     _fixed |-> FALSE, selected |-> FALSE, actionable |-> FALSE, items |-> 0,
     accessibleName |-> "", accessibleRoleDescription |-> ""]

\* get hasParent
hasParent(this) == this.level > 1

\* get requiresToggleButton
requiresToggleButton(this) ==
    IF ~this._fixed THEN (this.hasChildren \/ this.items > 0) ELSE FALSE

\* an optional value: undefined, or a value
None == <<>>
Some(v) == <<v>>

\* generated/i18n/i18n-defaults.js
TREE_ITEM_ARIA_LABEL == TextObj(<<"TREE_ITEM_ARIA_LABEL">>, <<"Tree Item">>)
TREE_ITEM_EXPAND_NODE == TextObj(<<"TREE_ITEM_EXPAND_NODE">>, <<"Expand Node">>)
TREE_ITEM_COLLAPSE_NODE == TextObj(<<"TREE_ITEM_COLLAPSE_NODE">>, <<"Collapse Node">>)

\* the static TreeItemBase.i18nBundle before onDefine assigns it
NoBundle == [assigned |-> FALSE, packageName |-> ""]

\* TreeItemBase.i18nBundle.getText(textObj): reading the unassigned static
\* throws a TypeError
BundleGetText(textObj) ==
    IF i18nBundle.assigned
    THEN GetText(i18nBundle.packageName, textObj, <<>>).result
    ELSE <<"TypeError">>

\* get _showToggleButtonBeginning
_showToggleButtonBeginning(this) ==
    this.showToggleButton /\ ~this._minimal /\ ~this._toggleButtonEnd

\* get _showToggleButtonEnd without the _minimal condition
ShowToggleButtonEndIgnoreMinimal(this) ==
    this.showToggleButton /\ this._toggleButtonEnd

\* get _showToggleButtonEnd
_showToggleButtonEnd(this) ==
    this.showToggleButton /\ ~this._minimal /\ this._toggleButtonEnd

\* get _ariaLabel
_ariaLabel(this) ==
    IF this.accessibleRoleDescription # ""
    THEN None
    ELSE Some(BundleGetText(TREE_ITEM_ARIA_LABEL))

\* get iconAccessibleName
iconAccessibleName(this) ==
    IF this.expanded
    THEN BundleGetText(TREE_ITEM_COLLAPSE_NODE)
    ELSE BundleGetText(TREE_ITEM_EXPAND_NODE)

\* what ListItem's _accInfo can contain: the inherited defaults, and an object
\* that sets every key the tree item sets, to other values
SuperAccInfos ==
    { [role |-> "listitem", ariaExpanded |-> None, ariaLevel |-> None,
       ariaLabel |-> <<"Select">>],
      [role |-> "option", ariaExpanded |-> Some(TRUE), ariaLevel |-> Some(7),
       listItemAriaLabel |-> Some(<<"Item">>),
       ariaOwns |-> Some(<<"other", "-subtree">>),
       ariaChecked |-> TRUE, ariaSelected |-> TRUE] }

\* get _accInfo with the spread written the other way round:
\* { ...accInfoSettings, ...super._accInfo }
AccInfoSuperWins(this, super) ==
    LET accInfoSettings ==
            [role |-> IF this._minimal THEN "menuitemradio" ELSE "treeitem",
             ariaExpanded |-> IF this.showToggleButton /\ ~this._minimal
                              THEN Some(this.expanded) ELSE None,
             ariaLevel |-> IF this._minimal THEN None ELSE Some(this.level),
             listItemAriaLabel |-> IF this.accessibleName = ""
                                   THEN _ariaLabel(this) ELSE None,
             ariaOwns |-> IF this.expanded
                          THEN Some(<<this._id, "-subtree">>) ELSE None,
             ariaChecked |-> IF this._minimal THEN this.selected ELSE FALSE,
             ariaSelected |-> IF this._minimal THEN FALSE ELSE this.selected]
    IN  super @@ accInfoSettings

\* get _accInfo with aria-expanded depending on showToggleButton alone
AccInfoExpandedWhenMinimal(this, super) ==
    LET accInfoSettings ==
            [role |-> IF this._minimal THEN "menuitemradio" ELSE "treeitem",
             ariaExpanded |-> IF this.showToggleButton
                              THEN Some(this.expanded) ELSE None,
             ariaLevel |-> IF this._minimal THEN None ELSE Some(this.level),
             listItemAriaLabel |-> IF this.accessibleName = ""
                                   THEN _ariaLabel(this) ELSE None,
             ariaOwns |-> IF this.expanded
                          THEN Some(<<this._id, "-subtree">>) ELSE None,
             ariaChecked |-> IF this._minimal THEN this.selected ELSE FALSE,
             ariaSelected |-> IF this._minimal THEN FALSE ELSE this.selected]
    IN  accInfoSettings @@ super

\* get _accInfo, given what super._accInfo returns.  posinset, setsize,
\* ariaSelectedText and ariaHaspopup, which are copied from properties that
\* no handler of the item reads or writes, are left out.
_accInfo(this, super) ==
    LET accInfoSettings ==
            [role |-> IF this._minimal THEN "menuitemradio" ELSE "treeitem",
             ariaExpanded |-> IF this.showToggleButton /\ ~this._minimal
                              THEN Some(this.expanded) ELSE None,
             ariaLevel |-> IF this._minimal THEN None ELSE Some(this.level),
             listItemAriaLabel |-> IF this.accessibleName = ""
                                   THEN _ariaLabel(this) ELSE None,
             ariaOwns |-> IF this.expanded
                          THEN Some(<<this._id, "-subtree">>) ELSE None,
             ariaChecked |-> IF this._minimal THEN this.selected ELSE FALSE,
             ariaSelected |-> IF this._minimal THEN FALSE ELSE this.selected]
    IN  accInfoSettings @@ super

\* this.fireEvent(name, { item: this })
FireEvent(this, name) == [name |-> name, item |-> this._id]

\* ListItem._onkeydown, the inherited handler: it runs and fires no tree event
SuperOnKeydown(this, e) == <<[name |-> "super._onkeydown", item |-> this._id]>>

\* _onkeydown without the showToggleButton condition on the right arrow
OnKeydownNoToggleButtonCheck(this, e) ==
    SuperOnKeydown(this, e)
    \o (IF ~this._fixed /\ isRight(e)
        THEN (IF ~this.expanded
              THEN <<FireEvent(this, "toggle")>>
              ELSE <<FireEvent(this, "step-in")>>)
        ELSE <<>>)
    \o (IF ~this._fixed /\ isLeft(e)
        THEN (IF this.expanded
              THEN <<FireEvent(this, "toggle")>>
              ELSE IF hasParent(this)
                   THEN <<FireEvent(this, "step-out")>>
                   ELSE <<>>)
        ELSE <<>>)

\* _onkeydown without the hasParent condition on the left arrow
OnKeydownNoParentCheck(this, e) ==
    SuperOnKeydown(this, e)
    \o (IF ~this._fixed /\ this.showToggleButton /\ isRight(e)
        THEN (IF ~this.expanded
              THEN <<FireEvent(this, "toggle")>>
              ELSE <<FireEvent(this, "step-in")>>)
        ELSE <<>>)
    \o (IF ~this._fixed /\ isLeft(e)
        THEN (IF this.expanded
              THEN <<FireEvent(this, "toggle")>>
              ELSE <<FireEvent(this, "step-out")>>)
        ELSE <<>>)

\* _onkeydown without the _fixed condition on the left arrow
OnKeydownNoFixedCheck(this, e) ==
    SuperOnKeydown(this, e)
    \o (IF ~this._fixed /\ this.showToggleButton /\ isRight(e)
        THEN (IF ~this.expanded
              THEN <<FireEvent(this, "toggle")>>
              ELSE <<FireEvent(this, "step-in")>>)
        ELSE <<>>)
    \o (IF isLeft(e)
        THEN (IF this.expanded
              THEN <<FireEvent(this, "toggle")>>
              ELSE IF hasParent(this)
                   THEN <<FireEvent(this, "step-out")>>
                   ELSE <<>>)
        ELSE <<>>)

\* _onkeydown that calls the inherited handler after its own checks
OnKeydownSuperLast(this, e) ==
    (IF ~this._fixed /\ this.showToggleButton /\ isRight(e)
     THEN (IF ~this.expanded
           THEN <<FireEvent(this, "toggle")>>
           ELSE <<FireEvent(this, "step-in")>>)
     ELSE <<>>)
    \o (IF ~this._fixed /\ isLeft(e)
        THEN (IF this.expanded
              THEN <<FireEvent(this, "toggle")>>
              ELSE IF hasParent(this)
                   THEN <<FireEvent(this, "step-out")>>
                   ELSE <<>>)
        ELSE <<>>)
    \o SuperOnKeydown(this, e)

\* _onkeydown(e): what the handler does, in order
OnKeydown(this, e) ==
    SuperOnKeydown(this, e)
    \o (IF ~this._fixed /\ this.showToggleButton /\ isRight(e)
        THEN (IF ~this.expanded
              THEN <<FireEvent(this, "toggle")>>
              ELSE <<FireEvent(this, "step-in")>>)
        ELSE <<>>)
    \o (IF ~this._fixed /\ isLeft(e)
        THEN (IF this.expanded
              THEN <<FireEvent(this, "toggle")>>
              ELSE IF hasParent(this)
                   THEN <<FireEvent(this, "step-out")>>
                   ELSE <<>>)
        ELSE <<>>)

\* an operation on the item: its name, the key of a keydown, the item before
\* it ran, what it did in order, and whether it stopped the event's propagation
Operation(handler, key, before, trace, stopped) ==
    [handler |-> handler, key |-> key, before |-> before, trace |-> trace,
     stopped |-> stopped]

\* a keydown event delivered to the item
_onkeydown(e) ==
    /\ lastEvent' = Operation("_onkeydown", e.key, item, OnKeydown(item, e), FALSE)
    /\ UNCHANGED item
    /\ UNCHANGED i18nVars
    /\ UNCHANGED textVars
    /\ UNCHANGED classVars

\* toggle() that leaves a fixed item alone
ToggleUnlessFixed ==
    /\ item' = IF item._fixed THEN item
               ELSE [item EXCEPT !.expanded = ~item.expanded]
    /\ lastEvent' = Operation("toggle", "", item, <<>>, FALSE)
    /\ UNCHANGED i18nVars
    /\ UNCHANGED textVars
    /\ UNCHANGED classVars

\* toggle()
toggle ==
    /\ item' = [item EXCEPT !.expanded = ~item.expanded]
    /\ lastEvent' = Operation("toggle", "", item, <<>>, FALSE)
    /\ UNCHANGED i18nVars
    /\ UNCHANGED textVars
    /\ UNCHANGED classVars

\* _toggleClick(e) that also toggles the item itself
ToggleClickTogglesItem ==
    /\ lastEvent' = Operation("_toggleClick", "", item,
                              <<FireEvent(item, "toggle")>>, TRUE)
    /\ item' = [item EXCEPT !.expanded = ~item.expanded]
    /\ UNCHANGED i18nVars
    /\ UNCHANGED textVars
    /\ UNCHANGED classVars

\* _toggleClick(e)
_toggleClick ==
    /\ lastEvent' = Operation("_toggleClick", "", item,
                              <<FireEvent(item, "toggle")>>, TRUE)
    /\ UNCHANGED item
    /\ UNCHANGED i18nVars
    /\ UNCHANGED textVars
    /\ UNCHANGED classVars

\* onBeforeRendering that only ever switches the toggle button on
OnBeforeRenderingKeepToggleButton(this) ==
    [this EXCEPT !.actionable = FALSE,
                 !.showToggleButton = this.showToggleButton
                                         \/ requiresToggleButton(this)]

\* the body of onBeforeRendering: the item after it
OnBeforeRendering(this) ==
    [this EXCEPT !.actionable = FALSE,
                 !.showToggleButton = requiresToggleButton(this)]

\* onBeforeRendering()
onBeforeRendering ==
    /\ item' = OnBeforeRendering(item)
    /\ lastEvent' = Operation("onBeforeRendering", "", item, <<>>, FALSE)
    /\ UNCHANGED i18nVars
    /\ UNCHANGED textVars
    /\ UNCHANGED classVars

\* a write to one of the item's properties from outside, or a slot change
SetProperty(name, value) ==
    /\ item' = [item EXCEPT ![name] = value]
    /\ lastEvent' = Operation("set", "", item, <<>>, FALSE)
    /\ UNCHANGED i18nVars
    /\ UNCHANGED textVars
    /\ UNCHANGED classVars

BooleanProperties ==
    {"showToggleButton", "expanded", "hasChildren", "_toggleButtonEnd",
     "_minimal", "_fixed", "selected", "actionable"}

AccessibleNames == {"", "Node"}
AccessibleRoleDescriptions == {"", "Navigation"}

(* ================= TreeItemBase.ts: definition of the class ============ *)

WebComponents == "@ui5/webcomponents"

\* the getI18nBundle call made by onDefine, and one made by another component
DefineCall == 1
OtherCall == 2

\* no instance has rendered yet
NoRead ==
    [rendered |-> FALSE, assigned |-> FALSE, listItemAriaLabel |-> None,
     iconAccessibleName |-> None]

\* static onDefine(), up to its await: getI18nBundle("@ui5/webcomponents") is
\* called and awaited together with super.onDefine()
onDefine ==
    /\ defineState = "idle"
    /\ GetI18nBundle(DefineCall, WebComponents)

\* onDefine that does not await the bundle: its promise resolves at once and
\* the static is assigned whenever the bundle arrives
OnDefineNoAwait ==
    /\ defineState = "idle"
    /\ calls[DefineCall].pc # "idle"
    /\ defineState' = "resolved"
    /\ i18nBundle' = IF calls[DefineCall].pc = "resolved"
                     THEN [assigned |-> TRUE,
                           packageName |-> calls[DefineCall].packageName]
                     ELSE i18nBundle
    /\ UNCHANGED lastRead
    /\ UNCHANGED i18nVars
    /\ UNCHANGED textVars
    /\ UNCHANGED treeVars

\* onDefine resumed when the awaited Promise.all has settled: the bundle is
\* assigned to TreeItemBase.i18nBundle and the promise of onDefine resolves,
\* or the rejection of getI18nBundle rejects it.  A custom getter's promise
\* may fulfil with a bundle for the package or reject.
OnDefineResume ==
    /\ defineState = "idle"
    /\ \/ /\ calls[DefineCall].pc \in {"resolved", "delegated"}
          /\ i18nBundle' = [assigned |-> TRUE,
                            packageName |-> calls[DefineCall].packageName]
          /\ defineState' = "resolved"
       \/ /\ calls[DefineCall].pc \in {"rejected", "delegated"}
          /\ defineState' = "rejected"
          /\ UNCHANGED i18nBundle
    /\ UNCHANGED lastRead
    /\ UNCHANGED i18nVars
    /\ UNCHANGED textVars
    /\ UNCHANGED treeVars

\* UI5Element.define: once onDefine has resolved the class is registered as a
\* custom element, and only then can instances exist and render
Define ==
    /\ defineState = "resolved"
    /\ defineState' = "defined"
    /\ UNCHANGED <<i18nBundle, lastRead>>
    /\ UNCHANGED i18nVars
    /\ UNCHANGED textVars
    /\ UNCHANGED treeVars

\* the warnings of TreeItemBase.i18nBundle.getText(textObj)
BundleWarnings(textObj) ==
    IF i18nBundle.assigned
    THEN GetText(i18nBundle.packageName, textObj, <<>>).warned
    ELSE <<>>

\* a render of the instance: onBeforeRendering, then the template reads
\* _accInfo and, for a shown toggle button, iconAccessibleName
Render ==
    LET this == OnBeforeRendering(item)
        label == \E super \in SuperAccInfos :
                    _accInfo(this, super).listItemAriaLabel # None
        icon == _showToggleButtonBeginning(this) \/ _showToggleButtonEnd(this)
    IN  /\ defineState = "defined"
        /\ Len(warnings) < MaxWarnings
        /\ item' = this
        /\ lastEvent' = Operation("onBeforeRendering", "", item, <<>>, FALSE)
        /\ lastRead' =
              [rendered |-> TRUE, assigned |-> i18nBundle.assigned,
               listItemAriaLabel |-> IF label THEN _ariaLabel(this) ELSE None,
               iconAccessibleName |->
                   IF icon THEN Some(iconAccessibleName(this)) ELSE None]
        /\ warnings' = warnings
              \o (IF label THEN BundleWarnings(TREE_ITEM_ARIA_LABEL) ELSE <<>>)
              \o (IF icon
                  THEN BundleWarnings(IF this.expanded
                                      THEN TREE_ITEM_COLLAPSE_NODE
                                      ELSE TREE_ITEM_EXPAND_NODE)
                  ELSE <<>>)
        /\ UNCHANGED <<i18nBundle, defineState>>
        /\ UNCHANGED <<bundleData, lastText>>
        /\ UNCHANGED i18nVars


(* ========================== specifications ============================ *)

\* the module state of i18nBundle.ts after load
I18nInit ==
    /\ I18nBundleInstances = <<>>
    /\ customGetI18nBundle = 0
    /\ bundles = <<>>
    /\ calls = [c \in Calls |-> IdleCall]
    /\ returned = [p \in Packages |-> {}]
    /\ lastRegistered = 0
    /\ bundleData = <<>>
    /\ warnings = <<>>
    /\ lastText = NoText

\* a newly constructed tree item with the given identity
ItemInit(id) ==
    /\ item = NewItem(id)
    /\ lastEvent = Operation("constructor", "", NewItem(id), <<>>, FALSE)

\* the class TreeItemBase before it is defined as a custom element
ClassInit ==
    /\ i18nBundle = NoBundle
    /\ defineState = "idle"
    /\ lastRead = NoRead

Init == I18nInit /\ ItemInit("ui5wc_1") /\ ClassInit

\* the state once TreeItemBase has been defined with the default bundle path
DefinedInit ==
    /\ I18nBundleInstances = (WebComponents :> 1)
    /\ customGetI18nBundle = 0
    /\ bundles = <<WebComponents>>
    /\ calls = [c \in Calls |->
                  IF c = DefineCall
                  THEN [IdleCall EXCEPT !.pc = "resolved",
                                        !.packageName = WebComponents,
                                        !.fetches = 1, !.result = 1,
                                        !.registry = TRUE]
                  ELSE IdleCall]
    /\ returned = [p \in Packages |-> IF p = WebComponents THEN {1} ELSE {}]
    /\ lastRegistered = 0
    /\ bundleData = (WebComponents :> LoaderData(WebComponents))
    /\ warnings = <<>>
    /\ lastText = NoText
    /\ i18nBundle = [assigned |-> TRUE, packageName |-> WebComponents]
    /\ defineState = "defined"
    /\ lastRead = NoRead

TreeInit == DefinedInit /\ \E id \in Ids : ItemInit(id)

\* the bundle registry and the asynchronous getI18nBundle
Next ==
    \/ \E p \in Packages : CallGetI18nBundleSync(p)
    \/ \E c \in Calls, p \in Packages : GetI18nBundle(c, p)
    \/ \E c \in Calls : FetchI18nBundleLoaded(c)
    \/ \E c \in Calls, e \in LoadErrors : FetchI18nBundleFailed(c, e)
    \/ \E c \in Calls : GetI18nBundleResume(c)
    \/ \E g \in Getters : RegisterCustomI18nBundleGetter(g)

Spec == Init /\ [][Next]_vars

\* getText on the constructed bundles while loaders register locale data
TextNext ==
    \/ \E p \in Packages : CallGetI18nBundleSync(p)
    \/ \E p \in Packages, d \in LocaleData : SetI18nBundleData(p, d)
    \/ \E b \in 1..MaxBundles, t \in TextObjs, ps \in ParamLists :
          CallGetText(b, t, ps)

TextSpec == Init /\ [][TextNext]_vars

\* one tree item receiving property writes, renders and input
TreeNext ==
    \/ \E e \in KeyEvents : _onkeydown(e)
    \/ toggle
    \/ _toggleClick
    \/ onBeforeRendering
    \/ \E n \in BooleanProperties, v \in BOOLEAN : SetProperty(n, v)
    \/ \E l \in Levels : SetProperty("level", l)
    \/ \E n \in ItemCounts : SetProperty("items", n)
    \/ \E a \in AccessibleNames : SetProperty("accessibleName", a)
    \/ \E a \in AccessibleRoleDescriptions :
          SetProperty("accessibleRoleDescription", a)

TreeSpec == TreeInit /\ [][TreeNext]_vars

\* the definition of the class while other calls and registrations interleave,
\* and the renders of an instance once the class is defined
DefineNext ==
    \/ onDefine
    \/ \E p \in Packages : GetI18nBundle(OtherCall, p)
    \/ \E c \in {DefineCall, OtherCall} : FetchI18nBundleLoaded(c)
    \/ \E c \in {DefineCall, OtherCall}, e \in LoadErrors :
          FetchI18nBundleFailed(c, e)
    \/ \E c \in {DefineCall, OtherCall} : GetI18nBundleResume(c)
    \/ \E g \in Getters : RegisterCustomI18nBundleGetter(g)
    \/ OnDefineResume
    \/ Define
    \/ Render
    \/ defineState = "defined" /\ toggle
    \/ defineState = "defined" /\
          \E n \in {"hasChildren", "_minimal"}, v \in BOOLEAN : SetProperty(n, v)
    \/ defineState = "defined" /\
          \E a \in AccessibleNames : SetProperty("accessibleName", a)
    \/ defineState = "defined" /\
          \E a \in AccessibleRoleDescriptions :
             SetProperty("accessibleRoleDescription", a)

DefineSpec == Init /\ [][DefineNext]_vars

(* ======================= properties: the registry ===================== *)

\* the number of I18nBundle objects constructed for a package
Constructed(p) == Cardinality({b \in DOMAIN bundles : bundles[b] = p})

\* the getI18nBundle calls for p that resolved on the default path
Resolved(p) == {c \in Calls : calls[c].pc = "resolved" /\ calls[c].packageName = p}

\* C1: every getI18nBundleSync call for a package returns the one instance the
\* registry holds for it, whatever other calls come in between, and an entry
\* of the registry, once inserted, is never removed or replaced.
C1_SyncReturnsTheOneInstance ==
    /\ [](\A p \in Packages :
            /\ Cardinality(returned[p]) <= 1
            /\ returned[p] # {} =>
                  /\ p \in DOMAIN I18nBundleInstances
                  /\ returned[p] = {I18nBundleInstances[p]})
    /\ [][\A p \in DOMAIN I18nBundleInstances :
            /\ p \in DOMAIN I18nBundleInstances'
            /\ I18nBundleInstances'[p] = I18nBundleInstances[p]]_vars

\* getI18nBundleSync ran twice for one package, through two getI18nBundle
\* calls, with a call for the other package in the registry as well
C1_Witness ==
    /\ calls[1].pc = "resolved" /\ calls[2].pc = "resolved"
    /\ calls[1].packageName = "pkg-a" /\ calls[2].packageName = "pkg-a"
    /\ "@ui5/webcomponents" \in DOMAIN I18nBundleInstances
    /\ returned["pkg-a"] # {} /\ returned["@ui5/webcomponents"] # {}

\* C2: while no custom getter is registered, all getI18nBundle calls for a
\* package that have resolved hold the same instance, the one in the registry,
\* and exactly one I18nBundle has been constructed for that package.
C2_OneInstancePerPackage ==
    customGetI18nBundle = 0 =>
        \A p \in Packages :
            /\ Constructed(p) <= 1
            /\ \A c \in Resolved(p) :
                  /\ Constructed(p) = 1
                  /\ p \in DOMAIN I18nBundleInstances
                  /\ calls[c].result = I18nBundleInstances[p]
            /\ \A c, d \in Resolved(p) : calls[c].result = calls[d].result

\* two getI18nBundle calls for one package fetched and resolved, no getter set
C2_Witness ==
    /\ customGetI18nBundle = 0
    /\ \E p \in Packages :
          /\ Cardinality(Resolved(p)) >= 2
          /\ Constructed(p) = 1
          /\ \A c \in Resolved(p) : calls[c].fetches = 1

\* C3: a getI18nBundle call that started with a custom getter registered
\* delegated to that getter and did nothing else: it triggered no fetch and
\* did not touch the registry.
C3_CustomGetterBypassesDefault ==
    \A c \in Calls :
        (calls[c].pc # "idle" /\ calls[c].startGetter # 0) =>
            /\ calls[c].pc = "delegated"
            /\ calls[c].getter = calls[c].startGetter
            /\ calls[c].fetches = 0
            /\ ~calls[c].registry
            /\ calls[c].result = 0

\* a call delegated to the custom getter after another call took the default path
C3_Witness ==
    \E c, d \in Calls :
        /\ calls[c].pc = "delegated" /\ calls[c].startGetter # 0
        /\ calls[d].pc = "resolved" /\ calls[d].startGetter = 0

\* the default path of a call ran: it fetched or went to the registry
DefaultPathRan(c) == calls[c].fetches > 0 \/ calls[c].registry

\* the custom path of a call ran: it delegated to a getter
CustomPathRan(c) == calls[c].getter # 0

\* C4: in every getI18nBundle call exactly one of the two paths runs, also
\* when a custom getter is registered while the call waits for the fetch.
C4_ExactlyOnePath ==
    \A c \in Calls :
        calls[c].pc # "idle" => (DefaultPathRan(c) # CustomPathRan(c))

\* a call started without a custom getter, one was registered while it was
\* suspended, and it resolved
C4_Witness ==
    \E c \in Calls :
        /\ calls[c].pc = "resolved"
        /\ calls[c].startGetter = 0
        /\ calls[c].resumeGetter # 0

\* C8: a getI18nBundle call whose fetch failed is rejected with the failure of
\* the fetch, has fetched once, and leaves the registry as it was: it
\* constructs and inserts nothing.
C8_FailedFetchRejects ==
    /\ [](\A c \in Calls :
            (calls[c].fetchError # "" /\ calls[c].pc # "failed") =>
                /\ calls[c].pc = "rejected"
                /\ calls[c].error = calls[c].fetchError
                /\ calls[c].fetches = 1
                /\ ~calls[c].registry
                /\ calls[c].result = 0)
    /\ [][\A c \in Calls :
            (calls[c].pc = "failed" /\ calls'[c].pc # "failed") =>
                UNCHANGED <<I18nBundleInstances, bundles>>]_vars

\* a call rejected with the load error of its fetch
C8_Witness ==
    \E c \in Calls :
        /\ calls[c].pc = "rejected"
        /\ calls[c].error \in LoadErrors
        /\ calls[c].packageName \notin DOMAIN I18nBundleInstances

(* ========================= properties: getText ======================== *)

\* the key and default text the last getText call resolved its argument to
LastKey == NormalizeTextObj(lastText.textObj).key
LastDefaultText == NormalizeTextObj(lastText.textObj).defaultText

\* the last getText call was given a key
LastHasKey == lastText.called /\ lastText.textObj.type # "undefined" /\ LastKey # <<>>

\* the text the call falls back to: defaultText, or the key when that is empty
LastFallback == IF LastDefaultText # <<>> THEN LastDefaultText ELSE LastKey

\* C5: for a non-empty key, getText returns format(T, params), T being the
\* translated string when the package's loaded locale data contains the key
\* and otherwise defaultText, or the key when defaultText is empty; a bare
\* string s stands for {key: s, defaultText: s}.
C5_GetTextResolution ==
    LastHasKey =>
        lastText.result =
            FormatMessage(IF lastText.hadData /\ lastText.entry.defined
                          THEN lastText.entry.value
                          ELSE LastFallback,
                          lastText.params)

\* C6: a getText call with a key emits one missing-key diagnostic exactly when
\* the package's locale data exists and lacks the key, and then returns the
\* formatted default text; with the key present it emits none.
C6_MissingKeyDiagnostic ==
    LastHasKey =>
        /\ lastText.warned =
              (IF lastText.hadData /\ ~lastText.entry.defined THEN 1 ELSE 0)
        /\ lastText.warned = 1 =>
              lastText.result = FormatMessage(LastFallback, lastText.params)

\* getText was called without a key
NoKey(textObj) == textObj.type = "undefined" \/ textObj.key = <<>>

\* C7: a getText call without a key (undefined, "", or a pair with an empty
\* key) returns "" and is silent: no diagnostic, no read of the locale data,
\* no call of the formatter, and the registry, the locale data and the custom
\* getter slot stay as they were.
C7_NoKeyIsSilent ==
    [][\A b \in DOMAIN bundles, t \in TextObjs, ps \in ParamLists :
          (NoKey(t) /\ CallGetText(b, t, ps)) =>
              /\ lastText'.result = <<>>
              /\ lastText'.warned = 0
              /\ ~lastText'.consulted
              /\ ~lastText'.formatted
              /\ UNCHANGED <<warnings, bundleData, I18nBundleInstances,
                             bundles, customGetI18nBundle>>]_vars

\* getText was called with an empty key and a default text on a bundle whose
\* package has locale data, and returned ""
C7_Witness ==
    /\ lastText.called
    /\ lastText.textObj.type = "object"
    /\ lastText.textObj.key = <<>>
    /\ lastText.textObj.defaultText # <<>>
    /\ lastText.hadData
    /\ lastText.result = <<>>

(* ======================== properties: tree item ======================= *)

\* the events the last operation fired, in order, without the inherited handler
Fired == SelectSeq(lastEvent.trace, LAMBDA ev : ev.name # "super._onkeydown")

\* the last operation on the item was a keydown of the given key
LastKeydown(key) == lastEvent.handler = "_onkeydown" /\ lastEvent.key = key

\* C9: a right-arrow keydown on an item that is not fixed and shows the toggle
\* button fires exactly one event carrying the item, toggle when collapsed and
\* step-in when expanded; without the toggle button it fires nothing; expanded
\* is not changed by the handler.
C9_RightArrow ==
    LastKeydown("ArrowRight") =>
        /\ (~lastEvent.before._fixed /\ lastEvent.before.showToggleButton) =>
              Fired = <<[name |-> IF lastEvent.before.expanded
                                  THEN "step-in" ELSE "toggle",
                         item |-> lastEvent.before._id]>>
        /\ ~lastEvent.before.showToggleButton => Fired = <<>>
        /\ item.expanded = lastEvent.before.expanded

\* a right-arrow keydown on an expanded item with a toggle button fired step-in
C9_Witness ==
    /\ LastKeydown("ArrowRight")
    /\ ~item._fixed /\ item.showToggleButton /\ item.expanded
    /\ Len(Fired) = 1 /\ Fired[1].name = "step-in"

\* C10: a left-arrow keydown on an item that is not fixed fires one toggle when
\* the item is expanded, one step-out when it is collapsed with level > 1, and
\* nothing when it is collapsed with level = 1; expanded is not changed.
C10_LeftArrow ==
    (LastKeydown("ArrowLeft") /\ ~lastEvent.before._fixed) =>
        /\ Fired = IF lastEvent.before.expanded
                   THEN <<[name |-> "toggle", item |-> lastEvent.before._id]>>
                   ELSE IF lastEvent.before.level > 1
                        THEN <<[name |-> "step-out", item |-> lastEvent.before._id]>>
                        ELSE <<>>
        /\ item.expanded = lastEvent.before.expanded

\* a left-arrow keydown on a collapsed root item without a toggle button
\* fired nothing
C10_Witness ==
    /\ LastKeydown("ArrowLeft")
    /\ ~item._fixed /\ ~item.expanded /\ item.level = 1 /\ ~item.showToggleButton
    /\ Fired = <<>>

\* the last operation was a keydown of an arrow key
LastArrowKeydown == LastKeydown("ArrowLeft") \/ LastKeydown("ArrowRight")

\* C11: an arrow keydown on a fixed item fires no toggle, step-in or step-out,
\* whatever expanded, showToggleButton, hasChildren and level are.
C11_FixedFiresNothing ==
    (LastArrowKeydown /\ lastEvent.before._fixed) => Fired = <<>>

\* a left-arrow keydown on a fixed, expanded item below the root that has
\* children and a toggle button
C11_Witness ==
    /\ LastKeydown("ArrowLeft")
    /\ item._fixed /\ item.expanded /\ item.showToggleButton
    /\ item.hasChildren /\ item.level > 1
    /\ Fired = <<>>

\* C12: _toggleClick stops the propagation of its event, fires exactly one
\* toggle carrying the item and leaves expanded as it is; expanded only ever
\* changes in toggle() or in a property write from outside.
C12_ToggleClickOnlyNotifies ==
    /\ [](lastEvent.handler = "_toggleClick" =>
            /\ lastEvent.stopped
            /\ lastEvent.trace = <<[name |-> "toggle", item |-> lastEvent.before._id]>>
            /\ item.expanded = lastEvent.before.expanded)
    /\ [][item'.expanded # item.expanded =>
            lastEvent'.handler \in {"toggle", "set"}]_vars

\* the toggle button of a collapsed item was activated
C12_Witness ==
    /\ lastEvent.handler = "_toggleClick"
    /\ ~item.expanded /\ item.showToggleButton
    /\ Len(lastEvent.trace) = 1

\* C13: toggle() negates expanded in every state, fires nothing and changes
\* no other property; a second toggle() right after restores the item.
C13_ToggleFlips ==
    /\ [](lastEvent.handler = "toggle" =>
            /\ item = [lastEvent.before EXCEPT !.expanded = ~lastEvent.before.expanded]
            /\ lastEvent.trace = <<>>)
    /\ [][(lastEvent.handler = "toggle" /\ lastEvent'.handler = "toggle") =>
            item' = lastEvent.before]_vars

\* toggle() expanded a fixed item that has no children and no toggle button
C13_Witness ==
    /\ lastEvent.handler = "toggle"
    /\ item._fixed /\ ~item.hasChildren /\ item.items = 0
    /\ ~item.showToggleButton
    /\ item.expanded /\ ~lastEvent.before.expanded

\* C14: the toggle button is at the beginning iff showToggleButton, not
\* _minimal and not _toggleButtonEnd, at the end iff showToggleButton, not
\* _minimal and _toggleButtonEnd; never at both, and at neither when _minimal.
C14_ToggleButtonPlacement ==
    /\ _showToggleButtonBeginning(item) =
          (item.showToggleButton /\ ~item._minimal /\ ~item._toggleButtonEnd)
    /\ _showToggleButtonEnd(item) =
          (item.showToggleButton /\ ~item._minimal /\ item._toggleButtonEnd)
    /\ ~(_showToggleButtonBeginning(item) /\ _showToggleButtonEnd(item))
    /\ item._minimal =>
          (~_showToggleButtonBeginning(item) /\ ~_showToggleButtonEnd(item))

\* a minimal item whose toggle button would be at the end
C14_Witness ==
    item.showToggleButton /\ item._minimal /\ item._toggleButtonEnd

\* C15: whatever the inherited _accInfo holds, a minimal item has the role
\* menuitemradio, ariaChecked = selected and ariaSelected = false; any other
\* item has the role treeitem, ariaSelected = selected and ariaChecked =
\* false; the two are never both true.
C15_OneSelectionChannel ==
    \A super \in SuperAccInfos :
        LET acc == _accInfo(item, super) IN
        /\ IF item._minimal
           THEN /\ acc.role = "menuitemradio"
                /\ acc.ariaChecked = item.selected
                /\ acc.ariaSelected = FALSE
           ELSE /\ acc.role = "treeitem"
                /\ acc.ariaSelected = item.selected
                /\ acc.ariaChecked = FALSE
        /\ ~(acc.ariaChecked /\ acc.ariaSelected)

\* a selected minimal item
C15_Witness == item._minimal /\ item.selected

\* C16: aria-expanded is the value of expanded exactly when one of the two
\* toggle button placements holds and undefined otherwise; aria-owns is the
\* item's subtree identifier exactly when expanded holds.
C16_AriaExpandedAndOwns ==
    \A super \in SuperAccInfos :
        LET acc == _accInfo(item, super) IN
        /\ acc.ariaExpanded =
              IF _showToggleButtonBeginning(item) \/ _showToggleButtonEnd(item)
              THEN Some(item.expanded) ELSE None
        /\ acc.ariaOwns =
              IF item.expanded THEN Some(<<item._id, "-subtree">>) ELSE None

\* an expanded minimal item with showToggleButton set
C16_Witness == item.showToggleButton /\ item._minimal /\ item.expanded

\* the entries of the last operation that are the inherited key handler
SuperRuns == SelectSeq(lastEvent.trace, LAMBDA ev : ev.name = "super._onkeydown")

\* C19: on every keydown, fixed item or not, arrow key or not, the inherited
\* handler runs exactly once and before any event of that keydown is fired.
C19_SuperRunsFirst ==
    lastEvent.handler = "_onkeydown" =>
        /\ Len(SuperRuns) = 1
        /\ lastEvent.trace[1].name = "super._onkeydown"

\* a left-arrow keydown on an expanded item ran the inherited handler and
\* then fired toggle
C19_Witness ==
    /\ LastKeydown("ArrowLeft")
    /\ Len(lastEvent.trace) = 2
    /\ lastEvent.trace[2].name = "toggle"

\* C20: after onBeforeRendering, showToggleButton is
\* !_fixed && (hasChildren || items.length > 0) and actionable is false; so a
\* fixed item or one without children then shows no toggle button, has
\* aria-expanded undefined and fires nothing on a right arrow.
C20_RenderSetsToggleButton ==
    lastEvent.handler = "onBeforeRendering" =>
        /\ item.showToggleButton =
              (~item._fixed /\ (item.hasChildren \/ item.items > 0))
        /\ ~item.actionable
        /\ (item._fixed \/ ~(item.hasChildren \/ item.items > 0)) =>
              /\ ~_showToggleButtonBeginning(item)
              /\ ~_showToggleButtonEnd(item)
              /\ \A super \in SuperAccInfos :
                    _accInfo(item, super).ariaExpanded = None
              /\ OnKeydown(item, [key |-> "ArrowRight"]) = SuperOnKeydown(item, [key |-> "ArrowRight"])

\* a render switched the toggle button of a fixed item with children off
C20_Witness ==
    /\ lastEvent.handler = "onBeforeRendering"
    /\ lastEvent.before.showToggleButton
    /\ item._fixed /\ item.hasChildren
    /\ ~item.showToggleButton

(* =================== properties: getters and definition =============== *)

\* C18: the custom getter slot holds the getter of the most recent
\* registerCustomI18nBundleGetter call, and a getI18nBundle call that started
\* after a registration delegated to that most recent getter, for any package.
C18_LastGetterWins ==
    /\ customGetI18nBundle = lastRegistered
    /\ \A c \in Calls :
          (calls[c].pc # "idle" /\ calls[c].startRegistered # 0) =>
              /\ calls[c].pc = "delegated"
              /\ calls[c].getter = calls[c].startRegistered

\* two calls for different packages delegated to different getters: the
\* getter was replaced between them
C18_Witness ==
    \E c, d \in Calls :
        /\ calls[c].pc = "delegated" /\ calls[d].pc = "delegated"
        /\ calls[c].getter # calls[d].getter
        /\ calls[c].packageName # calls[d].packageName
        /\ customGetI18nBundle \in {calls[c].getter, calls[d].getter}

\* C17: an instance renders, and reads bundle text, only after onDefine has
\* assigned TreeItemBase.i18nBundle: no read of _ariaLabel or
\* iconAccessibleName finds the static unassigned.
C17_BundleAssignedBeforeRender ==
    /\ defineState = "defined" => i18nBundle.assigned
    /\ lastRead.rendered =>
          /\ lastRead.assigned
          /\ lastRead.listItemAriaLabel # Some(<<"TypeError">>)
          /\ lastRead.iconAccessibleName # Some(<<"TypeError">>)

\* an instance rendered and read both texts after a define on the default
\* path during which a custom getter was registered
C17_Witness ==
    /\ lastRead.rendered
    /\ lastRead.listItemAriaLabel # None
    /\ lastRead.iconAccessibleName # None
    /\ calls[DefineCall].pc = "resolved"
    /\ calls[DefineCall].resumeGetter # 0

====
